---------------------------- MODULE Spec2Model ----------------------------
(***************************************************************************)
(* A model of the rentalcar price watcher: the Redis-backed run history    *)
(* (src/lib/db.ts), the statistics engine (src/lib/stats.ts), the search   *)
(* configuration (src/lib/config.ts), the scraper (src/lib/scraper.ts) and *)
(* the route handlers POST /api/ingest and POST /api/run.                  *)
(*                                                                         *)
(* JavaScript values are modelled as records so that values of different   *)
(* JavaScript types can be compared:                                       *)
(*   a number    [num |-> n, den |-> d]   the rational n/d, d > 0, reduced *)
(*   a string    [str |-> <<c1, ..., ck>>] its characters                  *)
(*   null        [null |-> TRUE]                                           *)
(*   undefined   [undef |-> TRUE]                                          *)
(* Floating point rounding is not modelled: arithmetic is exact.           *)
(***************************************************************************)
EXTENDS Integers, Sequences, FiniteSets, TLC

(***************************************************************************)
(* Bounds of the model.                                                    *)
(***************************************************************************)
\* handlers of the web application that can be in flight at the same time
NumHandlers == 2
\* runs the handlers build, that is requests that get as far as appendRun
MaxRuns == 2
\* appendRun calls of the serialized history (enough to overflow MAX_RUNS)
MaxSerialAppends == 503
\* records in a history handed to the statistics functions
MaxHist == 4

\* the longest text drawn from the alphabet for parsePriceText
MaxText == 4

(***************************************************************************)
(* JavaScript values.                                                      *)
(***************************************************************************)
Null == [null |-> TRUE]

Undefined == [undef |-> TRUE]

RECURSIVE GCD(_, _)
GCD(a, b) == IF b = 0 THEN a ELSE GCD(b, a % b)

Abs(n) == IF n < 0 THEN -n ELSE n

\* the number n/d (d # 0), reduced, with a positive denominator
Rat(n, d) ==
    LET g == GCD(Abs(n), Abs(d))
        s == IF d < 0 THEN -1 ELSE 1
    IN  [num |-> s * (n \div g), den |-> s * (d \div g)]

Num(n) == [num |-> n, den |-> 1]

Str(s) == [str |-> s]

IsNum(v) == "num" \in DOMAIN v

IsStr(v) == "str" \in DOMAIN v

\* typeof v
TypeOf(v) ==
    IF IsStr(v) THEN "string"
    ELSE IF IsNum(v) THEN "number"
    ELSE IF v = Undefined THEN "undefined"
    ELSE "object"

RAdd(a, b) == Rat(a.num * b.den + b.num * a.den, a.den * b.den)

RSub(a, b) == Rat(a.num * b.den - b.num * a.den, a.den * b.den)

RMul(a, b) == Rat(a.num * b.num, a.den * b.den)

\* a / b for b # 0
RDiv(a, b) == Rat(a.num * b.den, a.den * b.num)

RLt(a, b) == a.num * b.den < b.num * a.den

RLe(a, b) == a.num * b.den <= b.num * a.den

\* Math.floor and Math.ceil, as integers
Floor(a) == a.num \div a.den

Ceil(a) == -((-a.num) \div a.den)

Range(s) == {s[i] : i \in 1..Len(s)}

Last(s) == s[Len(s)]

(***************************************************************************)
(* Strings: String(n) and padStart.                                        *)
(***************************************************************************)
Digits == <<"0", "1", "2", "3", "4", "5", "6", "7", "8", "9">>

DigitVal(c) == CHOOSE i \in 0..9 : Digits[i + 1] = c

\* String(n) for an integer n >= 0
RECURSIVE IntToStr(_)
IntToStr(n) ==
    IF n < 10 THEN <<Digits[n + 1]>>
    ELSE IntToStr(n \div 10) \o <<Digits[(n % 10) + 1]>>

\* s.padStart(2, "0")
PadStart2(s) == IF Len(s) >= 2 THEN s ELSE IF Len(s) = 1 THEN <<"0">> \o s ELSE <<"0", "0">>

(***************************************************************************)
(* src/lib/stats.ts                                                        *)
(***************************************************************************)
\* xs with x inserted before the first element greater than it
RECURSIVE Insert(_, _)
Insert(x, xs) ==
    IF xs = <<>> THEN <<x>>
    ELSE IF RLt(x, Head(xs)) THEN <<x>> \o xs
    ELSE <<Head(xs)>> \o Insert(x, Tail(xs))

\* [...values].sort((a, b) => a - b)
RECURSIVE SortAsc(_)
SortAsc(xs) == IF xs = <<>> THEN <<>> ELSE Insert(Head(xs), SortAsc(Tail(xs)))

RECURSIVE Sum(_)
Sum(xs) == IF xs = <<>> THEN Num(0) ELSE RAdd(Head(xs), Sum(Tail(xs)))

median(values) ==
    IF Len(values) = 0 THEN Null
    ELSE LET s == SortAsc(values)
             n == Len(s)
         IN  IF n % 2 = 1 THEN s[(n \div 2) + 1]
             ELSE RDiv(RAdd(s[n \div 2], s[(n \div 2) + 1]), Num(2))

average(values) ==
    IF Len(values) = 0 THEN Null
    ELSE RDiv(Sum(values), Num(Len(values)))

\* mutation of percentile: the values are taken in their input order
percentileUnsorted(values, p) ==
    IF Len(values) = 0 \/ RLt(p, Num(0)) \/ RLt(Num(1), p) THEN Null
    ELSE LET s == values
             k == RMul(Num(Len(s) - 1), p)
             f == Floor(k)
             c == Ceil(k)
         IN  IF f = c THEN (IF f + 1 \in 1..Len(s) THEN s[f + 1] ELSE Null)
             ELSE RAdd(RMul(s[f + 1], RSub(Num(c), k)),
                       RMul(s[c + 1], RSub(k, Num(f))))

percentile(values, p) ==
    IF Len(values) = 0 \/ RLt(p, Num(0)) \/ RLt(Num(1), p) THEN Null
    ELSE LET s == SortAsc(values)
             k == RMul(Num(Len(s) - 1), p)
             f == Floor(k)
             c == Ceil(k)
         IN  IF f = c THEN (IF f + 1 \in 1..Len(s) THEN s[f + 1] ELSE Null)
             ELSE RAdd(RMul(s[f + 1], RSub(Num(c), k)),
                       RMul(s[c + 1], RSub(k, Num(f))))

\* runs.map((r) => r.min_price_per_day).filter((p) => p != null && p > 0)
RECURSIVE UsablePrices(_)
UsablePrices(runs) ==
    IF runs = <<>> THEN <<>>
    ELSE LET p == Head(runs).min_price_per_day
         IN  (IF IsNum(p) /\ RLt(Num(0), p) THEN <<p>> ELSE <<>>)
             \o UsablePrices(Tail(runs))

\* mutation of computeStats: count is the number of usable prices
computeStatsCountingUsable(runs) ==
    LET prices == UsablePrices(runs)
    IN  [count |-> Len(prices),
         avgPerDay |-> average(prices),
         medianPerDay |-> median(prices),
         p25PerDay |-> percentile(prices, Rat(1, 4))]

computeStats(runs) ==
    LET prices == UsablePrices(runs)
    IN  [count |-> Len(runs),
         avgPerDay |-> average(prices),
         medianPerDay |-> median(prices),
         p25PerDay |-> percentile(prices, Rat(1, 4))]

\* mutation of isCheap: the comparison with the threshold is strict
isCheapStrict(currentPricePerDay, runs, cheapPercentile) ==
    LET prices == UsablePrices(runs)
    IN  IF Len(prices) < 3 THEN [cheap |-> TRUE, threshold |-> Null]
        ELSE LET th == percentile(prices, cheapPercentile)
             IN  IF th = Null THEN [cheap |-> FALSE, threshold |-> Null]
                 ELSE [cheap |-> RLt(currentPricePerDay, th), threshold |-> th]

\* mutation of isCheap: the history is enough from two usable prices on
isCheapBelowTwo(currentPricePerDay, runs, cheapPercentile) ==
    LET prices == UsablePrices(runs)
    IN  IF Len(prices) < 2 THEN [cheap |-> TRUE, threshold |-> Null]
        ELSE LET th == percentile(prices, cheapPercentile)
             IN  IF th = Null THEN [cheap |-> FALSE, threshold |-> Null]
                 ELSE [cheap |-> RLe(currentPricePerDay, th), threshold |-> th]

isCheap(currentPricePerDay, runs, cheapPercentile) ==
    LET prices == UsablePrices(runs)
    IN  IF Len(prices) < 3 THEN [cheap |-> TRUE, threshold |-> Null]
        ELSE LET th == percentile(prices, cheapPercentile)
             IN  IF th = Null THEN [cheap |-> FALSE, threshold |-> Null]
                 ELSE [cheap |-> RLe(currentPricePerDay, th), threshold |-> th]

(***************************************************************************)
(* src/lib/config.ts.  searchConfig is read from the environment once; the *)
(* model keeps the fields the handlers use.  Dates are taken in UTC, so a  *)
(* day is always 24 hours long.                                            *)
(***************************************************************************)
\* the default configuration: 25 Feb 2026 to 12 Mar 2026, CHEAP_PERCENTILE 0.25
DefaultConfig ==
    [pickup |-> [day |-> 25, month |-> 2, year |-> 2026],
     dropoff |-> [day |-> 12, month |-> 3, year |-> 2026],
     cheapPercentile |-> Rat(1, 4)]

\* a same-day rental configured through PICKUP_* and DROPOFF_*
SameDayConfig ==
    [pickup |-> [day |-> 5, month |-> 11, year |-> 2026],
     dropoff |-> [day |-> 5, month |-> 11, year |-> 2026],
     cheapPercentile |-> Rat(1, 2)]

\* days from 1970-01-01 to new Date(year, month - 1, day), month in 1..12
DayNumber(d) ==
    LET y == IF d.month <= 2 THEN d.year - 1 ELSE d.year
        era == y \div 400
        yoe == y - era * 400
        mp == (d.month + 9) % 12
        doy == ((153 * mp + 2) \div 5) + d.day - 1
        doe == yoe * 365 + (yoe \div 4) - (yoe \div 100) + doy
    IN  era * 146097 + doe - 719468

Max(a, b) == IF a >= b THEN a ELSE b

getRentalDays(c) == Max(1, DayNumber(c.dropoff) - DayNumber(c.pickup))

DateStr(d) ==
    IntToStr(d.year) \o <<"-">> \o PadStart2(IntToStr(d.month))
        \o <<"-">> \o PadStart2(IntToStr(d.day))

getPickupDateStr(c) == Str(DateStr(c.pickup))

getDropoffDateStr(c) == Str(DateStr(c.dropoff))

\* the query parameters that vary with the configured dates
buildSearchUrl(c) ==
    Str(<<"https://www.rentalcars.com/search-results?">>
        \o <<"puDay=">> \o IntToStr(c.pickup.day)
        \o <<"&puMonth=">> \o IntToStr(c.pickup.month)
        \o <<"&puYear=">> \o IntToStr(c.pickup.year)
        \o <<"&doDay=">> \o IntToStr(c.dropoff.day)
        \o <<"&doMonth=">> \o IntToStr(c.dropoff.month)
        \o <<"&doYear=">> \o IntToStr(c.dropoff.year))

(***************************************************************************)
(* src/lib/scraper.ts: parsePriceText.  A text is a sequence of characters.*)
(***************************************************************************)
NaN == [nan |-> TRUE]

DigitChars == Range(Digits)

SpaceChars == {" ", "\n", "\t"}

\* the length of the longest prefix of s made of characters of S
PrefixLen(s, S) ==
    CHOOSE n \in 0..Len(s) :
        /\ \A i \in 1..n : s[i] \in S
        /\ n = Len(s) \/ s[n + 1] \notin S

Drop(s, n) == SubSeq(s, n + 1, Len(s))

Reverse(s) == [i \in 1..Len(s) |-> s[Len(s) + 1 - i]]

\* text.trim()
Trim(s) ==
    LET a == Drop(s, PrefixLen(s, SpaceChars))
    IN  SubSeq(a, 1, Len(a) - PrefixLen(Reverse(a), SpaceChars))

\* s.replace(",", "."): the first comma only
ReplaceFirstComma(s) ==
    IF "," \notin Range(s) THEN s
    ELSE LET i == CHOOSE j \in 1..Len(s) :
                     s[j] = "," /\ \A h \in 1..(j - 1) : s[h] # ","
         IN  [s EXCEPT ![i] = "."]

RECURSIVE DigitsToInt(_)
DigitsToInt(s) ==
    IF s = <<>> THEN 0
    ELSE 10 * DigitsToInt(SubSeq(s, 1, Len(s) - 1)) + DigitVal(Last(s))

RECURSIVE Pow10(_)
Pow10(n) == IF n = 0 THEN 1 ELSE 10 * Pow10(n - 1)

\* parseFloat(s) for s made of digits, periods and commas: the longest
\* prefix that is a decimal literal, NaN when there is none
parseFloat(s) ==
    LET il == PrefixLen(s, DigitChars)
        rest == Drop(s, il)
        hasDot == rest # <<>> /\ Head(rest) = "."
        fl == IF hasDot THEN PrefixLen(Tail(rest), DigitChars) ELSE 0
        frac == IF hasDot THEN SubSeq(Tail(rest), 1, fl) ELSE <<>>
    IN  IF il = 0 /\ fl = 0 THEN NaN
        ELSE RAdd(Num(DigitsToInt(SubSeq(s, 1, il))),
                  Rat(DigitsToInt(frac), Pow10(fl)))

\* mutation of PlausiblePrice: no upper limit
PlausiblePriceUnlimited(v) == IsNum(v) /\ RLt(Num(0), v)

\* v > 0 && v < 100_000 (false for NaN)
PlausiblePrice(v) == IsNum(v) /\ RLt(Num(0), v) /\ RLt(v, Num(100000))

parsePriceText(text) ==
    IF Trim(text) = <<>> THEN Null
    ELSE LET stripped == SelectSeq(text, LAMBDA ch : ch \in DigitChars \cup {".", ","})
             normalized == ReplaceFirstComma(stripped)
             start == PrefixLen(normalized, {","})
             from == Drop(normalized, start)
             match == SubSeq(from, 1, PrefixLen(from, DigitChars \cup {"."}))
         IN  IF match = <<>> THEN Null
             ELSE LET v == parseFloat(match)
                  IN  IF PlausiblePrice(v) THEN v ELSE Null

(***************************************************************************)
(* src/lib/scraper.ts: extractPricesFromPage.  A rendered page answers     *)
(* each of the seven selectors with a list of elements or by throwing;     *)
(* reading an element's text can throw; so can reading the body text.      *)
(*   page    = [probes |-> <<r1, ..., r7>>, body |-> [throws, text]]       *)
(*   ri      = [throws |-> BOOLEAN, els |-> <<e1, ...>>]                   *)
(*   e       = [throws |-> BOOLEAN, text |-> characters]                   *)
(***************************************************************************)
PriceChars == DigitChars \cup {".", ","}

\* the inner loop over the elements one selector matched; a throwing
\* element ends the loop (the catch is around the whole selector)
RECURSIVE ProbeElements(_, _)
ProbeElements(els, prices) ==
    IF els = <<>> \/ Head(els).throws THEN prices
    ELSE LET pr == parsePriceText(Trim(Head(els).text))
         IN  ProbeElements(Tail(els),
                 IF pr # Null /\ pr \notin Range(prices)
                 THEN Append(prices, pr) ELSE prices)

\* the loop over the selectors, each in its own try/catch
RECURSIVE ProbeSelectors(_, _)
ProbeSelectors(probes, prices) ==
    IF probes = <<>> THEN prices
    ELSE ProbeSelectors(Tail(probes),
             IF Head(probes).throws THEN prices
             ELSE ProbeElements(Head(probes).els, prices))

\* one attempt of /€\s*([\d.,]+)|([\d.,]+)\s*€/ at position i of body:
\* the captured group and the last position matched
MatchAt(body, i) ==
    IF body[i] = "€"
    THEN LET ws == PrefixLen(Drop(body, i), SpaceChars)
             run == PrefixLen(Drop(body, i + ws), PriceChars)
         IN  [ok |-> run > 0,
              g |-> SubSeq(body, i + ws + 1, i + ws + run),
              end |-> i + ws + run]
    ELSE LET run == PrefixLen(Drop(body, i - 1), PriceChars)
             ws == PrefixLen(Drop(body, i - 1 + run), SpaceChars)
             e == i + run + ws
         IN  [ok |-> run > 0 /\ e <= Len(body) /\ body[e] = "€",
              g |-> SubSeq(body, i, i + run - 1),
              end |-> e]

\* the groups of the successive re.exec(body) calls, from position i on
RECURSIVE ScanFrom(_, _)
ScanFrom(body, i) ==
    IF i > Len(body) THEN <<>>
    ELSE LET m == MatchAt(body, i)
         IN  IF m.ok THEN <<m.g>> \o ScanFrom(body, m.end + 1)
             ELSE ScanFrom(body, i + 1)

\* the while loop of the text scan over the captured groups
RECURSIVE ScanGroups(_, _)
ScanGroups(groups, prices) ==
    IF groups = <<>> THEN prices
    ELSE LET v == parseFloat(ReplaceFirstComma(Head(groups)))
         IN  ScanGroups(Tail(groups),
                 IF PlausiblePrice(v) /\ v \notin Range(prices)
                 THEN Append(prices, v) ELSE prices)

\* mutation of extractPricesFromPage: the text is scanned in any case
extractPricesAlwaysScan(page) ==
    LET probed == ProbeSelectors(page.probes, <<>>)
    IN  IF page.body.throws
        THEN [threw |-> Len(probed) = 0, prices |-> SortAsc(probed)]
        ELSE [threw |-> FALSE,
              prices |-> SortAsc(ScanGroups(ScanFrom(page.body.text, 1), probed))]

\* mutation of extractPricesFromPage: the prices are returned as found
extractPricesUnsorted(page) ==
    LET probed == ProbeSelectors(page.probes, <<>>)
    IN  IF Len(probed) # 0 THEN [threw |-> FALSE, prices |-> probed]
        ELSE IF page.body.throws THEN [threw |-> TRUE, prices |-> <<>>]
        ELSE [threw |-> FALSE,
              prices |-> ScanGroups(ScanFrom(page.body.text, 1), <<>>)]

\* [threw |-> the call rejected, prices |-> the sorted result]
extractPricesFromPage(page) ==
    LET probed == ProbeSelectors(page.probes, <<>>)
    IN  IF Len(probed) # 0 THEN [threw |-> FALSE, prices |-> SortAsc(probed)]
        ELSE IF page.body.throws THEN [threw |-> TRUE, prices |-> <<>>]
        ELSE [threw |-> FALSE,
              prices |-> SortAsc(ScanGroups(ScanFrom(page.body.text, 1), <<>>))]

(***************************************************************************)
(* src/lib/scraper.ts: fetchPrices.  A scrape is what the browser does:    *)
(*   [launch |-> "ok" | "throw", goto |-> "ok" | "timeout", page |-> page] *)
(***************************************************************************)
\* Math.min(...xs) of a non-empty xs
RECURSIVE MinOf(_)
MinOf(xs) ==
    IF Len(xs) = 1 THEN Head(xs)
    ELSE LET m == MinOf(Tail(xs)) IN IF RLt(Head(xs), m) THEN Head(xs) ELSE m

\* mutation of fetchPrices: a page without prices is an error
fetchPricesOrThrow(c, scrape) ==
    LET empty == [min_price |-> Null,
                  all_prices |-> <<>>,
                  rental_days |-> getRentalDays(c),
                  pickup_date |-> getPickupDateStr(c),
                  dropoff_date |-> getDropoffDateStr(c),
                  url |-> buildSearchUrl(c)]
    IN  IF scrape.launch = "throw" \/ scrape.goto = "timeout"
        THEN [threw |-> TRUE, data |-> empty]
        ELSE LET ex == extractPricesFromPage(scrape.page)
             IN  IF ex.threw \/ ex.prices = <<>> THEN [threw |-> TRUE, data |-> empty]
                 ELSE [threw |-> FALSE,
                       data |-> [empty EXCEPT
                           !.all_prices = ex.prices,
                           !.min_price = IF Len(ex.prices) > 0
                                         THEN MinOf(ex.prices) ELSE Null]]

\* mutation of fetchPrices: a page-load timeout is caught and gives the
\* empty result
fetchPricesNoTimeout(c, scrape) ==
    LET empty == [min_price |-> Null,
                  all_prices |-> <<>>,
                  rental_days |-> getRentalDays(c),
                  pickup_date |-> getPickupDateStr(c),
                  dropoff_date |-> getDropoffDateStr(c),
                  url |-> buildSearchUrl(c)]
    IN  IF scrape.launch = "throw" THEN [threw |-> TRUE, data |-> empty]
        ELSE IF scrape.goto = "timeout" THEN [threw |-> FALSE, data |-> empty]
        ELSE LET ex == extractPricesFromPage(scrape.page)
             IN  IF ex.threw THEN [threw |-> TRUE, data |-> empty]
                 ELSE [threw |-> FALSE,
                       data |-> [empty EXCEPT
                           !.all_prices = ex.prices,
                           !.min_price = IF Len(ex.prices) > 0
                                         THEN MinOf(ex.prices) ELSE Null]]

\* [threw |-> the call rejected, data |-> the ScrapeResult]
fetchPrices(c, scrape) ==
    LET empty == [min_price |-> Null,
                  all_prices |-> <<>>,
                  rental_days |-> getRentalDays(c),
                  pickup_date |-> getPickupDateStr(c),
                  dropoff_date |-> getDropoffDateStr(c),
                  url |-> buildSearchUrl(c)]
    IN  IF scrape.launch = "throw" \/ scrape.goto = "timeout"
        THEN [threw |-> TRUE, data |-> empty]
        ELSE LET ex == extractPricesFromPage(scrape.page)
             IN  IF ex.threw THEN [threw |-> TRUE, data |-> empty]
                 ELSE [threw |-> FALSE,
                       data |-> [empty EXCEPT
                           !.all_prices = ex.prices,
                           !.min_price = IF Len(ex.prices) > 0
                                         THEN MinOf(ex.prices) ELSE Null]]

(***************************************************************************)
(* The state.                                                              *)
(***************************************************************************)
VARIABLES
    env,            \* process.env: REDIS_URL set or not, the secrets, searchConfig
    clientPromise,  \* db.ts clientPromise: "none", "connected" or "rejected"
    store,          \* the Redis value at RUNS_KEY: Null or a JSON text
    now,            \* the clock: the number of runs built so far
    pc,             \* pc[h]: where handler h is: "idle", "read", "set", "classify"
    ctx,            \* ctx[h]: the request of handler h (body and scrape by their
                    \* index in IngestBodies and Scrapes, 0 for none) and its locals
    done,           \* the request completed last, with its response
    writes,         \* history: the number of client.set calls that succeeded
    appended,       \* history: the appendRun calls that succeeded, in the order
                    \* of their client.set: [run, readAt, readOk]
    sin,            \* the arguments of the statistics function under test
    sout            \* its result

vars == <<env, clientPromise, store, now, pc, ctx, done, writes, appended, sin, sout>>

Handlers == 1..NumHandlers

(***************************************************************************)
(* src/lib/db.ts                                                           *)
(***************************************************************************)
MAX_RUNS == 500

\* JSON.stringify of an array of runs, and JSON.parse of a stored text
JSONStringify(items) == [json |-> "array", items |-> items]

JSONParse(raw) == [isArray |-> raw.json = "array", items |-> raw.items]

\* Array.isArray(parsed)
IsArray(parsed) == parsed.isArray

\* mutation of Trimmed: runs.slice(0, MAX_RUNS), which keeps the oldest
TrimmedKeepingOldest(runs) ==
    IF Len(runs) <= MAX_RUNS THEN runs
    ELSE SubSeq(runs, 1, MAX_RUNS)

\* runs.slice(-MAX_RUNS)
Trimmed(runs) ==
    IF Len(runs) <= MAX_RUNS THEN runs
    ELSE SubSeq(runs, Len(runs) - MAX_RUNS + 1, Len(runs))

\* getClient(): [threw, promise, message], the promise being the new clientPromise.
\* connectOk is whether client.connect() resolves, when it is called.
getClient(promise, redisUrl, connectOk) ==
    IF promise # "none"
    THEN [threw |-> promise = "rejected", promise |-> promise,
          message |-> "connect rejected"]
    ELSE IF ~redisUrl
    THEN [threw |-> TRUE, promise |-> promise, message |-> "Missing REDIS_URL"]
    ELSE IF connectOk
    THEN [threw |-> FALSE, promise |-> "connected", message |-> ""]
    ELSE [threw |-> TRUE, promise |-> "rejected", message |-> "connect rejected"]

\* getRuns() once the client is there: readOk is whether client.get resolves
\* to the stored value raw; every failure is caught and gives []
getRuns(readOk, raw) ==
    IF ~readOk THEN <<>>
    ELSE IF raw = Null THEN <<>>
    ELSE LET parsed == JSONParse(raw)
         IN  IF IsArray(parsed) THEN parsed.items ELSE <<>>

\* mutation of appendRunValue: an atomic append to what the store holds at
\* the time of the write
appendRunValueAtomic(runs, run) ==
    JSONStringify(Trimmed(Append(getRuns(TRUE, store), run)))

\* the value appendRun hands to client.set, from what getRuns returned
appendRunValue(runs, run) == JSONStringify(Trimmed(Append(runs, run)))

getRunsForDates(runs, pickupDate, dropoffDate) ==
    SelectSeq(runs, LAMBDA r : r.pickup_date = pickupDate /\ r.dropoff_date = dropoffDate)

\* the history as a reader of the store sees it
StoredRuns == getRuns(TRUE, store)

(***************************************************************************)
(* The environment and the requests the model draws from.                  *)
(***************************************************************************)
Secret1 == Str(<<"s", "1">>)

Secret2 == Str(<<"s", "2">>)

\* process.env of a deployment
Envs ==
    {[REDIS_URL |-> TRUE, CRON_SECRET |-> Undefined, INGEST_SECRET |-> Undefined,
      searchConfig |-> DefaultConfig],
     [REDIS_URL |-> TRUE, CRON_SECRET |-> Str(<<>>), INGEST_SECRET |-> Secret2,
      searchConfig |-> SameDayConfig],
     [REDIS_URL |-> TRUE, CRON_SECRET |-> Secret1, INGEST_SECRET |-> Secret2,
      searchConfig |-> DefaultConfig],
     [REDIS_URL |-> FALSE, CRON_SECRET |-> Undefined, INGEST_SECRET |-> Undefined,
      searchConfig |-> DefaultConfig]}

\* `Bearer ${secret}`
Bearer(secret) == Str(<<"B", "e", "a", "r", "e", "r", " ">> \o secret.str)

\* request.headers.get("authorization"): null when the header is absent
AuthHeaders == {Null, Bearer(Secret1), Bearer(Secret2)}

PickupText == Str(DateStr(DefaultConfig.pickup))

DropoffText == Str(DateStr(DefaultConfig.dropoff))

\* the fields of a complete body, as the scraping job posts it
FullFields ==
    [run_at |-> Str(<<"2", "0", "2", "6", "-", "0", "3", "-", "0", "1", "T", "1", "2", ":", "0", "0", ":", "0", "0", ".", "0", "0", "0", "Z">>),
     pickup_date |-> PickupText,
     dropoff_date |-> DropoffText,
     rental_days |-> Num(15),
     min_total_price |-> Num(300),
     min_price_per_day |-> Num(20),
     num_offers |-> Num(2),
     url |-> buildSearchUrl(DefaultConfig)]

NoFields ==
    [run_at |-> Undefined, pickup_date |-> Undefined, dropoff_date |-> Undefined,
     rental_days |-> Undefined, min_total_price |-> Undefined,
     min_price_per_day |-> Undefined, num_offers |-> Undefined, url |-> Undefined]

\* a request body: text that is not JSON ("invalid"), the JSON value null,
\* another JSON value that is no object ("primitive"), or a JSON object
Body(kind, fields) == [kind |-> kind, fields |-> fields]

IngestBodies ==
    << Body("object", FullFields),
       Body("object", [FullFields EXCEPT !.run_at = Undefined,
                                         !.min_price_per_day = Undefined]),
       Body("object", [FullFields EXCEPT !.pickup_date = Undefined]),
       Body("object", [FullFields EXCEPT !.pickup_date = Num(20260225)]),
       Body("object", [FullFields EXCEPT !.dropoff_date = Str(<<>>)]),
       Body("primitive", NoFields),
       Body("null", NoFields),
       Body("invalid", NoFields) >>

EmptyProbe == [throws |-> FALSE, els |-> <<>>]

ThrowingProbe == [throws |-> TRUE, els |-> <<>>]

Element(text) == [throws |-> FALSE, text |-> text]

StaleElement == [throws |-> TRUE, text |-> <<>>]

\* a results page with offers: the selectors overlap, one throws, one
\* element is stale
PricedPage ==
    [probes |-> << [throws |-> FALSE, els |-> <<Element(<<"€", "3", "0", "0", ".", "0", "0">>)>>],
                   ThrowingProbe,
                   [throws |-> FALSE,
                    els |-> <<Element(<<" ", "€", " ", "3", "0", "0", " ">>), Element(<<"4", "5", "0", ",", "0", "0", " ", "€">>),
                              StaleElement, Element(<<"€", "9", "9">>)>>],
                   EmptyProbe, EmptyProbe, EmptyProbe, EmptyProbe >>,
     body |-> [throws |-> FALSE, text |-> <<>>]]

\* the page of a blocked scrape: no price anywhere
BlockedPage ==
    [probes |-> <<EmptyProbe, EmptyProbe, EmptyProbe, EmptyProbe,
                  EmptyProbe, EmptyProbe, EmptyProbe>>,
     body |-> [throws |-> FALSE, text |-> <<"A", "c", "c", "e", "s", "s", " ", "d", "e", "n", "i", "e", "d">>]]

\* a page that went away: no element, and the body cannot be read
GonePage == [BlockedPage EXCEPT !.body = [throws |-> TRUE, text |-> <<>>]]

Scrape(launch, goto, page) == [launch |-> launch, goto |-> goto, page |-> page]

Scrapes ==
    << Scrape("ok", "ok", PricedPage),
       Scrape("ok", "ok", BlockedPage),
       Scrape("ok", "timeout", BlockedPage),
       Scrape("throw", "ok", BlockedPage),
       Scrape("ok", "ok", GonePage) >>

(***************************************************************************)
(* The route handlers.  A handler runs from one await on the store to the  *)
(* next in one step: "read" is before client.get, "set" before client.set, *)
(* "classify" before the read of getRunsForDates.                          *)
(***************************************************************************)
\* new Date().toISOString() at instant t
toISOString(t) == Str(<<"t">> \o IntToStr(t) \o <<"Z">>)

\* the truth value of a string or undefined
Truthy(v) == IsStr(v) /\ v.str # <<>>

\* a || b
OrElse(a, b) == IF Truthy(a) THEN a ELSE b

\* b.f of the parsed body b: undefined on anything but an object's own field
Field(body, f) == IF body.kind = "object" THEN body.fields[f] ELSE Undefined

Resp(status, ok, error) ==
    [status |-> status, ok |-> ok, error |-> error, cheap |-> FALSE, threshold |-> Null]

NoResp == Resp(0, FALSE, "")

\* the answer of a catch block to a thrown Error with this message:
\* src/app/api/run/route.ts lines 48-54 send the message,
\* src/app/api/ingest/route.ts lines 54-61 a fixed text
ErrorResp(route, message) ==
    Resp(500, FALSE, IF route = "ingest" THEN "Failed to store run" ELSE message)

\* the message of the Error a failing scrape throws
ScrapeError(scrape) ==
    IF scrape.launch = "throw" THEN "Failed to launch the browser process"
    ELSE IF scrape.goto = "timeout" THEN "Navigation timeout of 55000 ms exceeded"
    ELSE "Execution context was destroyed"

IdleCtx ==
    [route |-> "none", auth |-> Null, body |-> 0, scrape |-> 0,
     run |-> Null, runs |-> <<>>, appendCalls |-> 0, setCalls |-> 0,
     readOk |-> FALSE, readAt |-> 0, wroteAt |-> 0, storeErr |-> FALSE,
     ownInSeries |-> FALSE, resp |-> NoResp]

\* the handler to take the next request: the first idle one
Free(h) == pc[h] = "idle" /\ \A g \in Handlers : g < h => pc[g] # "idle"

\* handler h returns: its response is sent and its locals are gone
Finish(h, c) ==
    /\ done' = [c EXCEPT !.runs = <<>>]
    /\ pc' = [pc EXCEPT ![h] = "idle"]
    /\ ctx' = [ctx EXCEPT ![h] = IdleCtx]

\* handler h goes on to its next await
Continue(h, c, next) ==
    /\ pc' = [pc EXCEPT ![h] = next]
    /\ ctx' = [ctx EXCEPT ![h] = c]
    /\ UNCHANGED done

\* mutation of Unauthorized: only a request without the header is refused
UnauthorizedIfNoHeader(secret, authHeader) == Truthy(secret) /\ authHeader = Null

\* src/app/api/ingest/route.ts lines 8-12: the request is refused
Unauthorized(secret, authHeader) == Truthy(secret) /\ authHeader # Bearer(secret)

\* src/app/api/ingest/route.ts lines 22-49: the run built from the body
IngestRun(b, t) ==
    [run_at |-> IF TypeOf(Field(b, "run_at")) = "string"
                THEN Field(b, "run_at") ELSE toISOString(t),
     pickup_date |-> IF TypeOf(Field(b, "pickup_date")) = "string"
                     THEN Field(b, "pickup_date") ELSE Str(<<>>),
     dropoff_date |-> IF TypeOf(Field(b, "dropoff_date")) = "string"
                      THEN Field(b, "dropoff_date") ELSE Str(<<>>),
     rental_days |-> IF TypeOf(Field(b, "rental_days")) = "number"
                     THEN Field(b, "rental_days") ELSE Num(0),
     min_total_price |-> IF TypeOf(Field(b, "min_total_price")) = "number"
                         THEN Field(b, "min_total_price") ELSE Null,
     min_price_per_day |-> IF TypeOf(Field(b, "min_price_per_day")) = "number"
                           THEN Field(b, "min_price_per_day") ELSE Null,
     num_offers |-> IF TypeOf(Field(b, "num_offers")) = "number"
                    THEN Field(b, "num_offers") ELSE Num(0),
     url |-> IF TypeOf(Field(b, "url")) = "string" THEN Field(b, "url") ELSE Null]

\* POST /api/ingest up to the call of appendRun
IngestPOST(h, authHeader, i) ==
    /\ Free(h)
    /\ now < MaxRuns
    /\ UNCHANGED <<env, clientPromise, store, writes, appended, sin, sout>>
    /\ LET secret == OrElse(env.CRON_SECRET, env.INGEST_SECRET)
           c == [IdleCtx EXCEPT !.route = "ingest", !.auth = authHeader]
           body == IngestBodies[i]
           read == [c EXCEPT !.body = i]
           run == IngestRun(body, now + 1)
           Refuse(r) == Finish(h, r) /\ UNCHANGED now
       IN  IF Unauthorized(secret, authHeader)
           THEN Refuse([c EXCEPT !.resp = Resp(401, FALSE, "Unauthorized")])
           ELSE IF body.kind = "invalid"
           THEN Refuse([read EXCEPT !.resp = Resp(400, FALSE, "Invalid JSON")])
           ELSE IF body.kind = "null"
           \* b.run_at of null throws a TypeError outside every try
           THEN Refuse([read EXCEPT !.resp = Resp(500, FALSE, "Internal Server Error")])
           ELSE IF ~Truthy(run.pickup_date) \/ ~Truthy(run.dropoff_date)
           THEN Refuse([read EXCEPT
                    !.resp = Resp(400, FALSE, "Missing pickup_date or dropoff_date")])
           ELSE Continue(h, [read EXCEPT !.run = run], "read") /\ now' = now + 1

\* src/app/api/run/route.ts lines 15-29: the run built from the scrape
RunRun(data, t) ==
    LET min_total == data.min_price
        min_per_day == IF min_total # Null /\ data.rental_days > 0
                       THEN RDiv(min_total, Num(data.rental_days)) ELSE Null
    IN  [run_at |-> toISOString(t),
         pickup_date |-> data.pickup_date,
         dropoff_date |-> data.dropoff_date,
         rental_days |-> Num(data.rental_days),
         min_total_price |-> min_total,
         min_price_per_day |-> min_per_day,
         num_offers |-> Num(Len(data.all_prices)),
         url |-> data.url]

\* POST /api/run up to the call of appendRun
RunPOST(h, i) ==
    /\ Free(h)
    /\ now < MaxRuns
    /\ UNCHANGED <<env, clientPromise, store, writes, appended, sin, sout>>
    /\ LET c == [IdleCtx EXCEPT !.route = "run", !.scrape = i]
           fetched == fetchPrices(env.searchConfig, Scrapes[i])
       IN  IF fetched.threw
           THEN /\ Finish(h, [c EXCEPT !.resp = ErrorResp("run", ScrapeError(Scrapes[i]))])
                /\ UNCHANGED now
           ELSE /\ Continue(h, [c EXCEPT !.run = RunRun(fetched.data, now + 1)], "read")
                /\ now' = now + 1

\* appendRun up to client.set: getClient(), getRuns(), runs.push(run)
AppendRead(h, connectOk, readOk) ==
    /\ pc[h] = "read"
    /\ UNCHANGED <<env, store, now, writes, appended, sin, sout>>
    /\ LET gc == getClient(clientPromise, env.REDIS_URL, connectOk)
           c == [ctx[h] EXCEPT !.appendCalls = @ + 1]
       IN  /\ clientPromise' = gc.promise
           /\ IF gc.threw
              THEN Finish(h, [c EXCEPT !.storeErr = TRUE,
                                       !.resp = ErrorResp(c.route, gc.message)])
              ELSE Continue(h, [c EXCEPT !.runs = getRuns(readOk, store),
                                         !.readOk = readOk,
                                         !.readAt = writes], "set")

\* mutation of AppendSet: a failure of client.set is swallowed and the
\* request answers ok
AppendSetUnchecked(h, setOk) ==
    /\ pc[h] = "set"
    /\ UNCHANGED <<env, clientPromise, now, sin, sout>>
    /\ LET c == [ctx[h] EXCEPT !.setCalls = @ + 1]
       IN  IF setOk
           THEN /\ store' = appendRunValue(c.runs, c.run)
                /\ writes' = writes + 1
                /\ appended' = Append(appended, [run |-> c.run, readAt |-> c.readAt,
                                                  readOk |-> c.readOk])
                /\ IF c.route = "ingest"
                   THEN Finish(h, [c EXCEPT !.wroteAt = writes',
                                            !.resp = Resp(200, TRUE, "")])
                   ELSE Continue(h, [c EXCEPT !.wroteAt = writes'], "classify")
           ELSE /\ UNCHANGED <<store, writes, appended>>
                /\ Finish(h, [c EXCEPT !.resp = Resp(200, TRUE, "")])

\* appendRun's client.set and what the handler does with its outcome
AppendSet(h, setOk) ==
    /\ pc[h] = "set"
    /\ UNCHANGED <<env, clientPromise, now, sin, sout>>
    /\ LET c == [ctx[h] EXCEPT !.setCalls = @ + 1]
       IN  IF setOk
           THEN /\ store' = appendRunValue(c.runs, c.run)
                /\ writes' = writes + 1
                /\ appended' = Append(appended, [run |-> c.run, readAt |-> c.readAt,
                                                  readOk |-> c.readOk])
                /\ IF c.route = "ingest"
                   THEN Finish(h, [c EXCEPT !.wroteAt = writes',
                                            !.resp = Resp(200, TRUE, "")])
                   ELSE Continue(h, [c EXCEPT !.wroteAt = writes'], "classify")
           ELSE /\ UNCHANGED <<store, writes, appended>>
                /\ Finish(h, [c EXCEPT !.storeErr = TRUE,
                                       !.resp = ErrorResp(c.route, "client.set rejected")])

\* src/app/api/run/route.ts lines 31-47: the classification and the answer;
\* ownInSeries records whether the runs handed to isCheap hold the run just
\* appended
RunClassify(h, readOk) ==
    /\ pc[h] = "classify"
    /\ UNCHANGED <<env, clientPromise, store, now, writes, appended, sin, sout>>
    /\ LET c == ctx[h]
           runs == getRunsForDates(getRuns(readOk, store),
                                   getPickupDateStr(env.searchConfig),
                                   getDropoffDateStr(env.searchConfig))
           verdict == IF c.run.min_price_per_day # Null
                      THEN isCheap(c.run.min_price_per_day, runs,
                                   env.searchConfig.cheapPercentile)
                      ELSE [cheap |-> FALSE, threshold |-> Null]
       IN  Finish(h, [c EXCEPT !.ownInSeries = /\ c.run.min_price_per_day # Null
                                                /\ c.run \in Range(runs),
                               !.resp = [Resp(200, TRUE, "") EXCEPT
                                            !.cheap = verdict.cheap,
                                            !.threshold = verdict.threshold]])

\* a fresh deployment: no client, no key in Redis, no request yet
Fresh ==
    /\ clientPromise = "none"
    /\ store = Null
    /\ now = 0
    /\ pc = [h \in Handlers |-> "idle"]
    /\ ctx = [h \in Handlers |-> IdleCtx]
    /\ done = IdleCtx
    /\ writes = 0
    /\ appended = <<>>

Init ==
    /\ env \in Envs
    /\ Fresh
    /\ sin = Null
    /\ sout = Null

\* the header the scraping job sends: the configured secret, if there is one
JobHeader ==
    LET secret == OrElse(env.CRON_SECRET, env.INGEST_SECRET)
    IN  IF Truthy(secret) THEN Bearer(secret) ELSE Null

\* the application at work: the scraping job posts its complete body to
\* /api/ingest, anyone posts to /api/run, and the store can fail at any call
Next ==
    \E h \in Handlers :
        \/ IngestPOST(h, JobHeader, 1)
        \/ \E i \in 1..Len(Scrapes) : RunPOST(h, i)
        \/ \E connectOk \in BOOLEAN, readOk \in BOOLEAN : AppendRead(h, connectOk, readOk)
        \/ \E setOk \in BOOLEAN : AppendSet(h, setOk)
        \/ \E readOk \in BOOLEAN : RunClassify(h, readOk)

Spec == Init /\ [][Next]_vars

\* /api/ingest facing any client: every header and every body
IngestNext ==
    \E h \in Handlers :
        \/ \E a \in AuthHeaders, i \in 1..Len(IngestBodies) : IngestPOST(h, a, i)
        \/ \E connectOk \in BOOLEAN, readOk \in BOOLEAN : AppendRead(h, connectOk, readOk)
        \/ \E setOk \in BOOLEAN : AppendSet(h, setOk)

IngestSpec == Init /\ [][IngestNext]_vars

(***************************************************************************)
(* The serialized history: appendRun calls that run one after the other,   *)
(* none of them failing, on a deployment with a store.                     *)
(***************************************************************************)
\* the run of the n-th call: the run path's record of a scrape at instant n
SerialRun(n) ==
    RunRun(fetchPrices(env.searchConfig, Scrapes[1 + (n % 2)]).data, n)

\* one whole appendRun(run): getClient, getRuns, push, slice, set
SerialAppendRun ==
    /\ now < MaxSerialAppends
    /\ LET run == SerialRun(now + 1)
           gc == getClient(clientPromise, env.REDIS_URL, TRUE)
       IN  /\ ~gc.threw
           /\ clientPromise' = gc.promise
           /\ store' = appendRunValue(getRuns(TRUE, store), run)
           /\ appended' = Append(appended, [run |-> run, readAt |-> writes,
                                            readOk |-> TRUE])
    /\ writes' = writes + 1
    /\ now' = now + 1
    /\ UNCHANGED <<env, pc, ctx, done, sin, sout>>

SerialInit ==
    /\ env \in {e \in Envs : e.REDIS_URL /\ e.CRON_SECRET \in {Undefined, Str(<<>>)}}
    /\ Fresh
    /\ sin = Null
    /\ sout = Null

SerialNext == SerialAppendRun

SerialSpec == SerialInit /\ [][SerialNext]_vars

(***************************************************************************)
(* The statistics functions on their own: the arguments are drawn in the   *)
(* initial state and one step applies the function.                        *)
(***************************************************************************)
\* a stored run whose min_price_per_day is p
StatRun(p) ==
    [IngestRun(Body("object", FullFields), 0) EXCEPT !.min_price_per_day = p]

\* min_price_per_day of the runs handed to the statistics
PerDayValues == {Null, Num(0), Num(-5), Num(10), Num(20), Rat(77, 2)}

CurrentPrices == {Num(5), Num(15), Num(20), Num(100)}

CheapPercentiles == {Num(0), Rat(1, 4), Num(1), Rat(3, 2), Rat(-1, 2)}

\* five runs with the per-day prices 10, 20, 30, 40, 50
ExampleHistory == [i \in 1..5 |-> StatRun(Num(10 * i))]

Histories ==
    UNION {[1..n -> {StatRun(p) : p \in PerDayValues}] : n \in 0..MaxHist}
        \cup {ExampleHistory}

\* the arguments of percentile
PercentileValues == {Num(-5), Num(10), Num(20), Num(30), Num(40)}

Percentiles == CheapPercentiles \cup {Rat(1, 2), Rat(3, 4)}

ValueLists == UNION {[1..n -> PercentileValues] : n \in 0..MaxHist}

\* five runs with the per-day prices 30, 40, 50, 60, 70
StatsExampleHistory == [i \in 1..5 |-> StatRun(Num(20 + 10 * i))]

StatsInputs ==
    [fn : {"isCheap"}, cur : CurrentPrices, runs : Histories, pct : CheapPercentiles]
        \cup [fn : {"percentile"}, xs : ValueLists, p : Percentiles]
        \cup [fn : {"computeStats"}, runs : Histories \cup {StatsExampleHistory}]

ApplyIsCheap ==
    /\ sin # Null
    /\ sin.fn = "isCheap"
    /\ sout = Null
    /\ sout' = isCheap(sin.cur, sin.runs, sin.pct)
    /\ UNCHANGED <<env, clientPromise, store, now, pc, ctx, done, writes, appended, sin>>

ApplyPercentile ==
    /\ sin # Null
    /\ sin.fn = "percentile"
    /\ sout = Null
    /\ sout' = [value |-> percentile(sin.xs, sin.p)]
    /\ UNCHANGED <<env, clientPromise, store, now, pc, ctx, done, writes, appended, sin>>

ApplyComputeStats ==
    /\ sin # Null
    /\ sin.fn = "computeStats"
    /\ sout = Null
    /\ sout' = computeStats(sin.runs)
    /\ UNCHANGED <<env, clientPromise, store, now, pc, ctx, done, writes, appended, sin>>

StatsInit ==
    /\ env = CHOOSE e \in Envs : e.REDIS_URL /\ e.CRON_SECRET = Undefined
    /\ Fresh
    /\ sin \in StatsInputs
    /\ sout = Null

StatsNext == ApplyIsCheap \/ ApplyPercentile \/ ApplyComputeStats

StatsSpec == StatsInit /\ [][StatsNext]_vars

(***************************************************************************)
(* extractPricesFromPage on its own: the page is drawn in the initial      *)
(* state, each of the seven selectors answering in one of four ways and    *)
(* the body text in one of three ways, with some further pages.            *)
(***************************************************************************)
\* a selector matching 20, 10 and 10 again, and an element without a price
UnsortedProbe ==
    [throws |-> FALSE,
     els |-> <<Element(<<"€", "2", "0">>), Element(<<"1", "0">>),
               Element(<<"1", "0", ".", "0", "0">>), Element(<<"a", "b", "c">>)>>]

\* a selector matching 10, then an element whose text cannot be read,
\* then 30
StaleProbe ==
    [throws |-> FALSE,
     els |-> <<Element(<<"1", "0">>), StaleElement, Element(<<"€", "3", "0">>)>>]

ProbeOptions == {EmptyProbe, ThrowingProbe, UnsortedProbe, StaleProbe}

FallbackText == <<"€", "4", "5", ".", "0", "0", " ", "t", "o", "t", "a", "l", ",", " ", "s", "a", "v", "e", " ", "w", "i", "t", "h", " ", "€", "3", "8", ".", "5", "0">>

\* 45 twice, a zero, a value of 100000 and a number without the symbol
MixedText == <<"4", "5", " ", "€", " ", "x", " ", "€", "4", "5", ",", "0", "0", " ", "€", "0", " ", "1", "0", "0", "0", "0", "0", "€", " ", "7">>

BodyOptions ==
    {[throws |-> FALSE, text |-> <<>>],
     [throws |-> FALSE, text |-> FallbackText],
     [throws |-> TRUE, text |-> <<>>]}

\* no selector matches, the text is MixedText
MixedPage == [BlockedPage EXCEPT !.body.text = MixedText]

\* probes yielding 10, 10 and 20
DedupPage ==
    [BlockedPage EXCEPT !.probes[3] =
        [throws |-> FALSE,
         els |-> <<Element(<<"€", "1", "0">>), Element(<<"1", "0">>), Element(<<"2", "0", " ", "€">>)>>]]

ExtractPages ==
    [probes : [1..7 -> ProbeOptions], body : BodyOptions]
        \cup {PricedPage, BlockedPage, GonePage, DedupPage, MixedPage}

ApplyExtract ==
    /\ sin # Null
    /\ sin.fn = "extract"
    /\ sout = Null
    /\ sout' = extractPricesFromPage(sin.page)
    /\ UNCHANGED <<env, clientPromise, store, now, pc, ctx, done, writes, appended, sin>>

ExtractInit ==
    /\ env = CHOOSE e \in Envs : e.REDIS_URL /\ e.CRON_SECRET = Undefined
    /\ Fresh
    /\ sin \in [fn : {"extract"}, page : ExtractPages]
    /\ sout = Null

ExtractNext == ApplyExtract

ExtractSpec == ExtractInit /\ [][ExtractNext]_vars

(***************************************************************************)
(* parsePriceText on its own: on every short text over an alphabet, on     *)
(* some longer texts, and on formatted prices.                             *)
(***************************************************************************)
TextAlphabet == {"0", "1", "9", ".", ",", "€", " ", "a", "-"}

LongTexts ==
    {<<"1", "0", "0", "0", "0", "0">>,
     <<"9", "9", "9", "9", "9">>,
     <<"1", "2", "3", "4", "5", "6", ".", "7">>,
     <<"€", " ", "9", "9", "9", "9", "9", ".", "9", "9">>,
     <<"1", "0", "0", "0", "0", "0", ".", "0", "1", " ", "€">>,
     <<"0", ".", "0", "0", " ", "€">>}

Texts == UNION {[1..n -> TextAlphabet] : n \in 0..MaxText} \cup LongTexts

\* the digits ds with sep before every group of three from the right
RECURSIVE GroupThousands(_, _)
GroupThousands(ds, sep) ==
    IF Len(ds) <= 3 THEN ds
    ELSE GroupThousands(SubSeq(ds, 1, Len(ds) - 3), sep)
             \o <<sep>> \o SubSeq(ds, Len(ds) - 2, Len(ds))

\* a price of euros and cents as shops print it: "€1,234.56" with the
\* period as decimal separator, "1.234,56 €" with the comma
FormatPrice(euros, cents, style) ==
    IF style = "period"
    THEN <<"€">> \o GroupThousands(IntToStr(euros), ",")
             \o <<".">> \o PadStart2(IntToStr(cents))
    ELSE GroupThousands(IntToStr(euros), ".")
             \o <<",">> \o PadStart2(IntToStr(cents)) \o <<" ", "€">>

FormattedEuros == {0, 7, 45, 999, 1000, 1234, 99999}

FormattedCents == {0, 5, 56, 99}

ParseInputs ==
    [fn : {"parse"}, text : Texts]
        \cup {i \in [fn : {"format"}, euros : FormattedEuros,
                      cents : FormattedCents, style : {"period", "comma"}] :
                 i.euros + i.cents > 0}

ApplyParse ==
    /\ sin # Null
    /\ sin.fn = "parse"
    /\ sout = Null
    /\ sout' = [value |-> parsePriceText(sin.text)]
    /\ UNCHANGED <<env, clientPromise, store, now, pc, ctx, done, writes, appended, sin>>

ApplyFormatAndParse ==
    /\ sin # Null
    /\ sin.fn = "format"
    /\ sout = Null
    /\ LET text == FormatPrice(sin.euros, sin.cents, sin.style)
       IN  sout' = [text |-> text, value |-> parsePriceText(text)]
    /\ UNCHANGED <<env, clientPromise, store, now, pc, ctx, done, writes, appended, sin>>

ParseInit ==
    /\ env = CHOOSE e \in Envs : e.REDIS_URL /\ e.CRON_SECRET = Undefined
    /\ Fresh
    /\ sin \in ParseInputs
    /\ sout = Null

ParseNext == ApplyParse \/ ApplyFormatAndParse

ParseSpec == ParseInit /\ [][ParseNext]_vars

(***************************************************************************)
(* Properties.                                                             *)
(***************************************************************************)
Min(a, b) == IF a <= b THEN a ELSE b

\* a text of the form t<digits>Z, as toISOString gives
IsTimestamp(v) ==
    /\ IsStr(v)
    /\ Len(v.str) >= 3
    /\ v.str[1] = "t"
    /\ v.str[Len(v.str)] = "Z"
    /\ \A i \in 2..(Len(v.str) - 1) : v.str[i] \in DigitChars

\* a text of the form YYYY-MM-DD
IsDateText(v) ==
    /\ IsStr(v)
    /\ Len(v.str) = 10
    /\ \A i \in 1..10 : IF i \in {5, 8} THEN v.str[i] = "-" ELSE v.str[i] \in DigitChars

\* a run that records an attempt without any offer
ZeroOfferRun(r) ==
    /\ r # Null
    /\ r.num_offers = Num(0)
    /\ r.min_total_price = Null
    /\ r.min_price_per_day = Null
    /\ IsTimestamp(r.run_at)
    /\ IsDateText(r.pickup_date)
    /\ IsDateText(r.dropoff_date)

\* the handlers that are between two awaits
InFlight == {h \in Handlers : pc[h] # "idle"}

\* C1: after any number n of serialized, succeeding appendRun calls from an
\* empty store, the history holds at most 500 records and is exactly the
\* last min(n, 500) appended records in append order (so the 501st append
\* drops the first record only).
C1_HistoryIsLastAppended ==
    LET n == Len(appended)
        k == Min(n, 500)
    IN  /\ Len(StoredRuns) = k
        /\ \A i \in 1..k : StoredRuns[i] = appended[n - k + i].run

\* C1 witness: the 501st append has happened; the first record is gone and
\* the second is now the oldest.
C1_Witness ==
    /\ Len(appended) = 501
    /\ Len(StoredRuns) = 500
    /\ StoredRuns[1] = appended[2].run
    /\ StoredRuns[1] # appended[1].run
    /\ StoredRuns[500] = appended[501].run

\* C2: an appendRun call that completes, with no other write between its
\* read and its write, keeps every record that was stored before it, except
\* the oldest one of a full history; also when its read of the history
\* failed.
C2_RecordsLeaveOnlyByTruncation ==
    [][\A h \in Handlers :
          (pc[h] = "set" /\ writes' = writes + 1 /\ pc'[h] # "set"
              /\ ctx[h].readAt = writes)
          => \A i \in 1..Len(StoredRuns) :
                 \/ Len(StoredRuns) = MAX_RUNS /\ i = 1
                 \/ StoredRuns[i] \in Range(StoredRuns')]_vars

\* C3: of two appendRun calls that both succeed, the later having read the
\* history before the earlier wrote it, at most one record is in the store
\* afterwards (the records of the calls being distinct).
C3_LostUpdate ==
    (\A a, b \in 1..Len(appended) : a # b => appended[a].run # appended[b].run)
    => \A i, j \in 1..Len(appended) :
           (i < j /\ appended[j].readAt < i)
           => ~(appended[i].run \in Range(StoredRuns)
                /\ appended[j].run \in Range(StoredRuns))

\* C3 witness: two calls read the empty history, both reads and both writes
\* succeeded, and the store, far below its capacity, holds the second
\* record only.
C3_Witness ==
    /\ Len(appended) = 2
    /\ appended[1].readOk /\ appended[2].readOk
    /\ appended[2].readAt = 0
    /\ appended[1].run # appended[2].run
    /\ StoredRuns = <<appended[2].run>>
    /\ Len(StoredRuns) < MAX_RUNS

\* C4: every stored run has min_price_per_day present exactly when it has
\* min_total_price present and rental_days > 0.
C4_PerDayIffTotalAndDays ==
    \A i \in 1..Len(StoredRuns) :
        LET r == StoredRuns[i]
        IN  (r.min_price_per_day # Null)
            <=> (r.min_total_price # Null /\ RLt(Num(0), r.rental_days))

\* the scrapes whose extraction pass completes without finding a price
ZeroPriceScrapes ==
    {i \in 1..Len(Scrapes) :
        /\ Scrapes[i].launch = "ok"
        /\ Scrapes[i].goto = "ok"
        /\ extractPricesFromPage(Scrapes[i].page) = [threw |-> FALSE, prices |-> <<>>]}

ZeroPriceScrape(i) == i \in ZeroPriceScrapes

\* C5: a run request whose extraction completes with zero prices builds a
\* run with num_offers = 0, no prices, a timestamp and both dates, and calls
\* appendRun with it once; it answers an error only when the store fails,
\* and otherwise answers ok (not cheap, no threshold) after appending that
\* run exactly once.
C5_ZeroPricesAreRecorded ==
    /\ \A h \in InFlight :
           (ctx[h].route = "run" /\ ZeroPriceScrape(ctx[h].scrape))
           => ZeroOfferRun(ctx[h].run)
    /\ (done.route = "run" /\ ZeroPriceScrape(done.scrape))
       => /\ ZeroOfferRun(done.run)
          /\ done.appendCalls = 1
          /\ done.resp.status # 200 => done.storeErr
          /\ ~done.storeErr
             => /\ done.resp.status = 200 /\ done.resp.ok
                /\ ~done.resp.cheap /\ done.resp.threshold = Null
                /\ done.setCalls = 1
                /\ Cardinality({k \in 1..Len(appended) :
                                   appended[k].run = done.run}) = 1

\* C5 witness: a run request whose scrape found nothing has answered ok and
\* its zero-offer run is the newest record of the store.
C5_Witness ==
    /\ done.route = "run"
    /\ ZeroPriceScrape(done.scrape)
    /\ done.resp.ok
    /\ StoredRuns # <<>>
    /\ Last(StoredRuns) = done.run
    /\ done.run.num_offers = Num(0)

BadDates(i) ==
    /\ i # 0
    /\ IngestBodies[i].kind # "invalid"
    /\ \E f \in {"pickup_date", "dropoff_date"} :
           \/ IngestBodies[i].kind # "object"
           \/ ~IsStr(IngestBodies[i].fields[f])
           \/ IngestBodies[i].fields[f] = Str(<<>>)

\* C7: an ingest request whose body lacks a usable pickup_date or
\* dropoff_date is answered HTTP 400 without appendRun being called.
C7_BadDatesRejected400 ==
    (done.route = "ingest" /\ BadDates(done.body))
    => /\ done.resp.status = 400
       /\ done.appendCalls = 0 /\ done.setCalls = 0 /\ done.wroteAt = 0

ConfiguredSecret ==
    IF env.CRON_SECRET \notin {Undefined, Str(<<>>)} THEN env.CRON_SECRET
    ELSE env.INGEST_SECRET

SecretConfigured == ConfiguredSecret \notin {Undefined, Str(<<>>)}

\* C9: with a secret configured, an ingest request whose Authorization
\* header is not exactly "Bearer <secret>" is answered HTTP 401 and never
\* reaches appendRun, and every ingest request that does carries that
\* header; with no secret configured no request is answered 401.
C9_IngestNeedsTheSecret ==
    /\ (done.route = "ingest" /\ SecretConfigured
           /\ done.auth # Bearer(ConfiguredSecret))
       => /\ done.resp.status = 401
          /\ done.run = Null
          /\ done.appendCalls = 0 /\ done.setCalls = 0 /\ done.wroteAt = 0
    /\ (done.route = "ingest" /\ SecretConfigured /\ done.appendCalls > 0)
       => done.auth = Bearer(ConfiguredSecret)
    /\ \A h \in InFlight :
           (ctx[h].route = "ingest" /\ SecretConfigured)
           => ctx[h].auth = Bearer(ConfiguredSecret)
    /\ ~SecretConfigured => done.resp.status # 401

\* C9 witness: both secrets are set and differ; a request carrying the
\* INGEST_SECRET was answered 401 while the store holds a record.
C9_Witness ==
    /\ env.CRON_SECRET = Secret1 /\ env.INGEST_SECRET = Secret2
    /\ done.route = "ingest"
    /\ done.auth = Bearer(Secret2)
    /\ done.resp.status = 401
    /\ StoredRuns # <<>>

\* the number of usable prices of a history: non-null and > 0
UsableCount(runs) ==
    Cardinality({i \in 1..Len(runs) :
        /\ runs[i].min_price_per_day # Null
        /\ runs[i].min_price_per_day.num > 0})

\* C10: with fewer than 3 usable historical prices isCheap answers
\* cheap = true and no threshold, whatever the current price and the
\* percentile.
C10_FewPricesMeansCheap ==
    (sout # Null /\ sin.fn = "isCheap" /\ UsableCount(sin.runs) < 3)
    => sout = [cheap |-> TRUE, threshold |-> Null]

\* C10 witness: three records of which two are usable, a current price
\* above both, a percentile outside [0, 1]: cheap all the same.
C10_Witness ==
    /\ sout # Null
    /\ sin.fn = "isCheap"
    /\ Len(sin.runs) = 3
    /\ UsableCount(sin.runs) = 2
    /\ sin.cur = Num(100)
    /\ sin.pct = Rat(3, 2)
    /\ sout.cheap

\* the usable prices of a history, in the order of the runs
UsableSeries(runs) ==
    SelectSeq([i \in 1..Len(runs) |-> runs[i].min_price_per_day],
              LAMBDA p : p # Null /\ p.num > 0)

\* C11: with at least 3 usable historical prices isCheap answers the
\* percentile of the usable prices as threshold and cheap exactly when the
\* current price is <= the threshold; the percentile is absent exactly when
\* cheapPercentile is outside [0, 1], and then cheap = false without
\* threshold.  History 10..50, percentile 0.25: threshold 20, so 15 and 20
\* are cheap.
C11_ThresholdIsPercentile ==
    (sout # Null /\ sin.fn = "isCheap" /\ UsableCount(sin.runs) >= 3)
    => LET th == percentile(UsableSeries(sin.runs), sin.pct)
           outside == sin.pct.num < 0 \/ sin.pct.num > sin.pct.den
       IN  /\ (th = Null) <=> outside
           /\ outside => sout = [cheap |-> FALSE, threshold |-> Null]
           /\ ~outside
              => /\ sout.threshold = th
                 /\ sout.cheap
                    <=> sin.cur.num * th.den <= th.num * sin.cur.den
           /\ (sin.runs = ExampleHistory /\ sin.pct = Rat(1, 4))
              => /\ sout.threshold = Num(20)
                 /\ sout.cheap <=> sin.cur \in {Num(5), Num(15), Num(20)}

\* C11 witness: the history 10..50 with percentile 0.25 and current price
\* 15 was classified cheap against the threshold 20.
C11_Witness ==
    /\ sout # Null
    /\ sin.fn = "isCheap"
    /\ sin.runs = ExampleHistory
    /\ sin.pct = Rat(1, 4)
    /\ sin.cur = Num(15)
    /\ sout = [cheap |-> TRUE, threshold |-> Num(20)]

\* the i-th smallest of the numbers xs (i in 1..Len(xs)), by counting
SortedAt(xs, i) ==
    CHOOSE v \in Range(xs) :
        /\ Cardinality({j \in 1..Len(xs) : RLt(xs[j], v)}) < i
        /\ i <= Cardinality({j \in 1..Len(xs) : RLe(xs[j], v)})

\* C12: percentile(xs, p) is absent exactly when xs is empty or p is outside
\* [0, 1]; otherwise, with s the ascending order of xs, k = (n-1)p,
\* f = floor(k) and c = ceil(k), it is s[f] when f = c and
\* s[f](c-k) + s[c](k-f) otherwise, whatever the order of xs;
\* percentile([10,20,30,40], 0.25) = 17.5.
C12_PercentileInterpolates ==
    (sout # Null /\ sin.fn = "percentile")
    => LET xs == sin.xs
           n == Len(xs)
           absent == n = 0 \/ sin.p.num < 0 \/ sin.p.num > sin.p.den
           kn == (n - 1) * sin.p.num
           kd == sin.p.den
           f == kn \div kd
           c == IF kn % kd = 0 THEN f ELSE f + 1
       IN  /\ (sout.value = Null) <=> absent
           /\ ~absent
              => IF f = c THEN sout.value = SortedAt(xs, f + 1)
                 ELSE sout.value =
                          RAdd(RMul(SortedAt(xs, f + 1), Rat(c * kd - kn, kd)),
                               RMul(SortedAt(xs, c + 1), Rat(kn - f * kd, kd)))
           /\ (Range(xs) = {Num(10), Num(20), Num(30), Num(40)} /\ n = 4
                  /\ sin.p = Rat(1, 4))
              => sout.value = Rat(35, 2)

\* C12 witness: percentile([40,10,30,20], 0.25), an unsorted input that
\* needs the interpolation, gave 17.5.
C12_Witness ==
    /\ sout # Null
    /\ sin.fn = "percentile"
    /\ sin.xs = <<Num(40), Num(10), Num(30), Num(20)>>
    /\ sin.p = Rat(1, 4)
    /\ sout.value = Rat(35, 2)

\* xs[1] + ... + xs[n]
RECURSIVE SumTo(_, _)
SumTo(xs, n) == IF n = 0 THEN Num(0) ELSE RAdd(SumTo(xs, n - 1), xs[n])

\* C13: computeStats answers count = the number of records it was given,
\* and average, median (the middle price, or the mean of the two middle
\* prices) and 25th percentile of the usable prices only, all three absent
\* when no price is usable; the prices 30..70 give 50, 50 and 40.
C13_StatsOverUsablePrices ==
    (sout # Null /\ sin.fn = "computeStats")
    => LET u == UsableSeries(sin.runs)
           n == Len(u)
       IN  /\ sout.count = Len(sin.runs)
           /\ n = 0 => /\ sout.avgPerDay = Null
                       /\ sout.medianPerDay = Null
                       /\ sout.p25PerDay = Null
           /\ n > 0
              => /\ sout.avgPerDay = RDiv(SumTo(u, n), Num(n))
                 /\ sout.medianPerDay =
                        IF n % 2 = 1 THEN SortedAt(u, (n + 1) \div 2)
                        ELSE RDiv(RAdd(SortedAt(u, n \div 2),
                                       SortedAt(u, n \div 2 + 1)), Num(2))
                 /\ sout.p25PerDay = percentile(u, Rat(1, 4))
           /\ sin.runs = StatsExampleHistory
              => sout = [count |-> 5, avgPerDay |-> Num(50),
                         medianPerDay |-> Num(50), p25PerDay |-> Num(40)]

\* C13 witness: four records of which two have usable prices, 10 and 20:
\* count 4, average and median 15, 25th percentile 12.5.
C13_Witness ==
    /\ sout # Null
    /\ sin.fn = "computeStats"
    /\ sin.runs = <<StatRun(Num(20)), StatRun(Null), StatRun(Num(-5)), StatRun(Num(10))>>
    /\ sout = [count |-> 4, avgPerDay |-> Num(15),
               medianPerDay |-> Num(15), p25PerDay |-> Rat(25, 2)]

\* C14: whenever extractPricesFromPage returns, its result is strictly
\* ascending (so no value occurs twice) and every element is a number
\* greater than 0 and less than 100000, whether the selectors or the text
\* scan produced it; probes yielding 10, 10, 20 give [10, 20].
C14_StrictlyAscendingPrices ==
    (sout # Null /\ sin.fn = "extract" /\ ~sout.threw)
    => LET ps == sout.prices
       IN  /\ \A i \in 1..Len(ps) :
                  /\ IsNum(ps[i])
                  /\ ps[i].num > 0
                  /\ ps[i].num < 100000 * ps[i].den
           /\ \A i \in 1..(Len(ps) - 1) :
                  ps[i].num * ps[i + 1].den < ps[i + 1].num * ps[i].den
           /\ sin.page = DedupPage => ps = <<Num(10), Num(20)>>

\* C14 witness: the page whose probes yield 10, 10 and 20 gave [10, 20].
C14_Witness ==
    /\ sout # Null
    /\ sin.fn = "extract"
    /\ sin.page = DedupPage
    /\ sout = [threw |-> FALSE, prices |-> <<Num(10), Num(20)>>]

\* the prices of the elements the selector loop reads: those of a selector
\* that answered, up to its first unreadable element
StructuralPrices(page) ==
    {parsePriceText(Trim(page.probes[i].els[j].text)) :
        <<i, j>> \in {ij \in (1..Len(page.probes)) \X (1..4) :
            /\ ~page.probes[ij[1]].throws
            /\ ij[2] <= Len(page.probes[ij[1]].els)
            /\ \A k \in 1..ij[2] : ~page.probes[ij[1]].els[k].throws}}
        \ {Null}

\* the valid prices among the matches of the currency pattern in a text
TextPrices(text) ==
    {v \in {parseFloat(ReplaceFirstComma(g)) : g \in Range(ScanFrom(text, 1))} :
        PlausiblePrice(v)}

\* C15: when the selectors yield at least one price the result is exactly
\* the prices they yield, whatever the text holds; when they yield none the
\* result is exactly the valid prices matched in the text.  The text
\* "€45.00 total, save with €38.50" gives [38.5, 45].
C15_TextScanOnlyAsFallback ==
    (sout # Null /\ sin.fn = "extract")
    => LET sp == StructuralPrices(sin.page)
           body == sin.page.body
       IN  /\ sp # {} => ~sout.threw /\ Range(sout.prices) = sp
           /\ (sp = {} /\ ~body.throws)
              => /\ ~sout.threw
                 /\ Range(sout.prices) = TextPrices(body.text)
           /\ (sp = {} /\ ~body.throws /\ body.text = FallbackText)
              => sout.prices = <<Rat(77, 2), Num(45)>>
           /\ sin.page = MixedPage => sout.prices = <<Num(45)>>

\* C15 witness: the first selector throws, no selector yields a price, and
\* the text "€45.00 total, save with €38.50" gave [38.5, 45].
C15_Witness ==
    /\ sout # Null
    /\ sin.fn = "extract"
    /\ sin.page.probes[1] = ThrowingProbe
    /\ StructuralPrices(sin.page) = {}
    /\ sin.page.body.text = FallbackText
    /\ sout = [threw |-> FALSE, prices |-> <<Rat(77, 2), Num(45)>>]

\* C16: whatever accesses to the page fail, extractPricesFromPage returns a
\* result, never fails, and the result holds the prices of every selector
\* that answered, also of those after a failing one.
C16_ExtractionNeverFails ==
    (sout # Null /\ sin.fn = "extract")
    => /\ ~sout.threw
       /\ StructuralPrices(sin.page) \subseteq Range(sout.prices)

\* the number a text of digits denotes, read from the left
RECURSIVE DecimalValue(_, _)
DecimalValue(t, acc) ==
    IF t = <<>> THEN acc
    ELSE DecimalValue(Tail(t),
             10 * acc + (CHOOSE d \in 0..9 : IntToStr(d) = <<Head(t)>>))

\* C17: parsePriceText returns either nothing or a number v with
\* 0 < v < 100000; nothing for the empty text, for a text without digits,
\* and for a text of digits whose value is 0 or is 100000 or more; a text
\* of digits with a value in between gives that value.
C17_ParsedPriceIsPlausible ==
    (sout # Null /\ sin.fn = "parse")
    => LET t == sin.text
           r == sout.value
           digits == t # <<>> /\ \A i \in 1..Len(t) : t[i] \in DigitChars
       IN  /\ r = Null \/ (IsNum(r) /\ r.num > 0 /\ r.num < 100000 * r.den)
           /\ t = <<>> => r = Null
           /\ (\A i \in 1..Len(t) : t[i] \notin DigitChars) => r = Null
           /\ digits
              => r = IF DecimalValue(t, 0) \in 1..99999
                     THEN Num(DecimalValue(t, 0)) ELSE Null

\* C17 witness: the text "100000" was refused.
C17_Witness ==
    /\ sout # Null
    /\ sin.fn = "parse"
    /\ sin.text = <<"1", "0", "0", "0", "0", "0">>
    /\ sout.value = Null

\* C18: a positive price below 100000, printed with the currency symbol in
\* either separator style, is parsed back to the same value.
C18_FormatThenParseRecovers ==
    (sout # Null /\ sin.fn = "format")
    => sout.value = Rat(100 * sin.euros + sin.cents, 100)

\* C19 as claimed: a run request that answered ok for a run with a per-day
\* price was classified against a series that holds that run; and a run
\* request that answered ok for a run without a price answered not cheap
\* with no threshold.
C19_ClassifiedWithOwnRecord ==
    (done.route = "run" /\ done.resp.status = 200)
    => IF done.run.min_price_per_day # Null
       THEN done.ownInSeries
       ELSE ~done.resp.cheap /\ done.resp.threshold = Null

=============================================================================
